---------------------------- MODULE Spec2Model ----------------------------
(***************************************************************************)
(* Model of install-pacman-packages.py: the resolution of the requested    *)
(* package names into pkg_dict (get_package_recursive), the installation   *)
(* walk (install_package_recursive) and the installation log               *)
(* (print_installation_log), as main() runs them one after the other.      *)
(*                                                                         *)
(* The collaborators (the cache directory, package-query, pacman, the      *)
(* archives' .PKGINFO) give fixed answers during one run.  An answer is    *)
(* drawn when the program first asks for it and is remembered in `world`,  *)
(* so that a second question gets the same answer.                         *)
(***************************************************************************)
EXTENDS Integers, Sequences, FiniteSets, TLC

\* Package names the command line, the archives and package-query may use.
Names == {"a", "b", "c"}

\* Longest list of `depend` entries of one archive.
MaxDeps == 2
\* Most package names on the command line.
MaxRequested == 2
\* Most provider names package-query -A prints for one name.
MaxProviders == 1
\* Most archives in the cache directory.
MaxArchives == 2
\* Depth at which the interpreter raises RecursionError.
RecursionLimit == 4
\* Most archives of one name in the cache directory.
MaxVersions == 2

\* The version every cached archive carries when the cache holds one archive
\* of a name at most.
CachedVersion == "1.0-1"

\* The versions the file names of archives may carry, and their characters.
Versions == {"1.0-1", "1.0.1-1", "2.9-1", "2.10-1"}

Chars ==
    [v \in Versions |->
        CASE v = "1.0-1"   -> <<"1", ".", "0", "-", "1">>
          [] v = "1.0.1-1" -> <<"1", ".", "0", ".", "1", "-", "1">>
          [] v = "2.9-1"   -> <<"2", ".", "9", "-", "1">>
          [] v = "2.10-1"  -> <<"2", ".", "1", "0", "-", "1">>]

SeqsUpTo(S, n) == UNION {[1..k -> S] : k \in 0..n}

\* The depend lists an archive of `n` may declare: up to MaxDeps different
\* names, none of them its own.
DepLists(n) ==
    { s \in SeqsUpTo(Names \ {n}, MaxDeps) :
        \A i, j \in 1..Len(s) : i # j => s[i] # s[j] }

VARIABLES
    package_names,   \* main: the lowered positional arguments
    use_cache_only,  \* main: args.use_cache_only
    force,           \* main: args.force
    pkg_dict,        \* main: name -> node (0: the name is no key)
    heap,            \* the package objects, by identity
    world,           \* the collaborators' answers asked for so far
    phase,           \* the loop of main that runs or ran last: resolve, install, report
    idx,             \* position of main's current loop in package_names
    stack,           \* the frames of the recursive function that is running
    returned,        \* names for which install_package_recursive has returned
    reports,         \* what print_installation_log produced, per requested name
    exc,             \* the exception that ended main, "none" if none
    exit_status      \* the exit status of the process, -1 while it runs

vars == <<package_names, use_cache_only, force, pkg_dict, heap, world, phase,
          idx, stack, returned, reports, exc, exit_status>>

----------------------------------------------------------------------------
\* PackageRepository and the classes of package objects.
REPO_OFFICIAL == "official"
REPO_LOCAL == "local"

\* PackageBase's class attributes are the defaults of every object.  Two
\* fields record what happened to the object: `installs` counts the runs of
\* its pacman command, `skipped` tells that install() found it installed in
\* the same version and ran nothing.
PackageBase(name) ==
    [cls |-> "PackageBase", name |-> name, version |-> "None",
     repository |-> "None", dependencies |-> <<>>, error_info |-> "None",
     installation_status |-> 0, installs |-> 0, skipped |-> FALSE]

\* CachedPackage.__init__ with _parse_file_name: name and version come from
\* the file name.
CachedPackage(name, version) ==
    [PackageBase(name) EXCEPT !.cls = "CachedPackage", !.version = version]

St == [d |-> pkg_dict, h |-> heap, w |-> world]

Alloc(st, node) == [st EXCEPT !.h = Append(st.h, node)]

\* The cache directory scan of main: the objects of cached_packages that
\* carry the name `n`, in the order of the list; <<-1>>: not asked yet.
ScanCache(st, n) ==
    IF st.w.cache[n] # <<-1>> THEN {st}
    ELSE { [st EXCEPT !.w.cache[n] = <<>>] } \cup
         IF Cardinality({p \in 1..Len(st.h) : st.h[p].cls = "CachedPackage"})
                >= MaxArchives
         THEN {}
         ELSE { [Alloc(st, CachedPackage(n, CachedVersion))
                    EXCEPT !.w.cache[n] = <<Len(st.h) + 1>>] }

\* pacman.is_installed(name).
AskInstalled(st, n) ==
    IF st.w.installed[n] # "?" THEN {st}
    ELSE { [st EXCEPT !.w.installed[n] = v] : v \in {"no", "yes"} }

\* pacman.get_info(name)['Version'] == version, for the version of the
\* cached archive; it is unequal to the None of a node without version.
AskVersion(st, n, version) ==
    IF version = "None" \/ st.w.same_version[n] # "?" THEN {st}
    ELSE { [st EXCEPT !.w.same_version[n] = v] : v \in {"no", "yes"} }

\* A status that takes every installed package to be installed in the
\* version of the object.
get_installation_status_by_name(st, p) ==
    LET n == st.h[p].name
    IN  { [s EXCEPT !.h[p].installation_status =
                        IF s.w.installed[n] = "no" THEN 0 ELSE 1]
          : s \in AskInstalled(st, n) }

get_installation_status(st, p) ==
    LET n == st.h[p].name
        version == st.h[p].version
    IN  UNION { IF s.w.installed[n] = "no"
                THEN {[s EXCEPT !.h[p].installation_status = 0]}
                ELSE {[s2 EXCEPT !.h[p].installation_status =
                          IF version # "None" /\ s2.w.same_version[n] = "yes"
                          THEN 1 ELSE 2]
                      : s2 \in AskVersion(s, n, version)}
                : s \in AskInstalled(st, n) }

\* distutils' LooseVersion.parse: the runs of digits become numbers, the
\* dots are dropped, and what lies between stays a string.  A component is
\* a record that tells a number from a string.
IntComponent(k) == [int |-> TRUE, n |-> k, s |-> ""]
StrComponent(c) == [int |-> FALSE, n |-> 0, s |-> c]

DigitValue ==
    [c \in {"0", "1", "2", "3", "4", "5", "6", "7", "8", "9"} |->
        CASE c = "0" -> 0 [] c = "1" -> 1 [] c = "2" -> 2 [] c = "3" -> 3
          [] c = "4" -> 4 [] c = "5" -> 5 [] c = "6" -> 6 [] c = "7" -> 7
          [] c = "8" -> 8 [] c = "9" -> 9]

\* The components of the characters cs from position i on; run is the
\* number the digits read so far make, -1 outside a run of digits.
RECURSIVE ParseFrom(_, _, _)
ParseFrom(cs, i, run) ==
    LET flush == IF run = -1 THEN <<>> ELSE <<IntComponent(run)>>
    IN  IF i > Len(cs) THEN flush
        ELSE IF cs[i] \in DOMAIN DigitValue
        THEN ParseFrom(cs, i + 1, (IF run = -1 THEN 0 ELSE run * 10) + DigitValue[cs[i]])
        ELSE IF cs[i] = "." THEN flush \o ParseFrom(cs, i + 1, -1)
        ELSE flush \o <<StrComponent(cs[i])>> \o ParseFrom(cs, i + 1, -1)

LooseVersion(v) == ParseFrom(Chars[v], 1, -1)

\* x < y for two LooseVersions, which Python decides by comparing the two
\* lists: at the first position where they differ the components are
\* compared, and a number and a string cannot be; without such a position
\* the shorter list is the smaller.  No two different strings occur as
\* components of Versions.
RECURSIVE ListLess(_, _, _)
ListLess(x, y, i) ==
    IF i > Len(x) \/ i > Len(y) THEN IF Len(x) < Len(y) THEN "True" ELSE "False"
    ELSE IF x[i] = y[i] THEN ListLess(x, y, i + 1)
    ELSE IF x[i].int # y[i].int THEN "TypeError"
    ELSE IF x[i].int /\ x[i].n < y[i].n THEN "True"
    ELSE "False"

LooseVersionLess(v, w) == ListLess(LooseVersion(v), LooseVersion(w), 1)

\* Lines 355-358: the loop that keeps the object with the greatest version
\* among the objects ids, from position k on; -1 if a comparison raises
\* TypeError.
RECURSIVE BestVersion(_, _, _, _)
BestVersion(h, ids, k, pkg) ==
    IF k > Len(ids) THEN pkg
    ELSE LET less == LooseVersionLess(h[pkg].version, h[ids[k]].version)
         IN  IF less = "TypeError" THEN -1
             ELSE BestVersion(h, ids, k + 1, IF less = "True" THEN ids[k] ELSE pkg)

\* Results are records [st, pkg, exc]; pkg = 0 stands for None (or for a
\* return without value), exc is the exception raised, "None" if none.
get_cached_package(st, n) ==
    UNION { LET chached_versions == s.w.cache[n]
                pkg == IF chached_versions = <<>> THEN 0
                       ELSE BestVersion(s.h, chached_versions, 1, chached_versions[1])
            IN  IF pkg = 0 THEN {[st |-> s, pkg |-> 0, exc |-> "None"]}
                ELSE IF pkg = -1 THEN {[st |-> s, pkg |-> 0, exc |-> "TypeError"]}
                ELSE {[st |-> s2, pkg |-> pkg, exc |-> "None"]
                      : s2 \in get_installation_status(s, pkg)}
            : s \in ScanCache(st, n) }

\* package-query -Qiif, -Siif, -Aiif: "-" is a non-zero return code.
AskQ(st, n) ==
    IF st.w.Q[n] # "?" THEN {st}
    ELSE { [st EXCEPT !.w.Q[n] = v] : v \in {"-"} \cup Names }

AskS(st, n) ==
    IF st.w.S[n] # "?" THEN {st}
    ELSE { [st EXCEPT !.w.S[n] = v] : v \in {"-"} \cup Names }

\* A non-zero return code and an empty output both leave pkg None: <<>>.
AskA(st, n) ==
    IF st.w.A[n] # <<"?">> THEN {st}
    ELSE { [st EXCEPT !.w.A[n] = v] : v \in SeqsUpTo(Names, MaxProviders) }

\* pacman.get_available(): whether the index lists the name.
AskAvailable(st, n) ==
    IF st.w.available[n] # "?" THEN {st}
    ELSE { [st EXCEPT !.w.available[n] = v] : v \in {"yes", "no"} }

\* The archive's .PKGINFO: unreadable, or its depend lines after
\* _get_dependencies_from_alias.
AskPkginfo(st, n) ==
    IF st.w.pkginfo[n] # <<"?">> THEN {st}
    ELSE { [st EXCEPT !.w.pkginfo[n] = v]
           : v \in {<<"!">>} \cup DepLists(n) }

determine_repository(st, p) ==
    { [s EXCEPT !.h[p].repository =
                    IF s.w.available[s.h[p].name] = "yes" THEN REPO_OFFICIAL ELSE REPO_LOCAL]
      : s \in AskAvailable(st, st.h[p].name) }

determine_package_info(st, p) ==
    IF st.h[p].repository # REPO_LOCAL THEN {st}
    ELSE { IF s.w.pkginfo[s.h[p].name] = <<"!">>
           THEN [s EXCEPT !.h[p].error_info = "InvalidPacmanPackageError"]
           ELSE [s EXCEPT !.h[p].dependencies = s.w.pkginfo[s.h[p].name]]
           : s \in AskPkginfo(st, st.h[p].name) }

\* OfficialPackage.__init__, registered under both names (lines 395-397).
OfficialPackage(st, n, real) ==
    LET id == Len(st.h) + 1
        s1 == Alloc(st, [PackageBase(real) EXCEPT !.cls = "OfficialPackage",
                                                  !.repository = REPO_OFFICIAL])
    IN  { [st |-> [s EXCEPT !.d[n] = id, !.d[real] = id], pkg |-> 0, exc |-> "None"]
          : s \in get_installation_status(s1, id) }

\* Lines 402-406 and 428-432.
Unavailable(st, n) ==
    LET id == Len(st.h) + 1
        s1 == Alloc(st, [PackageBase(n) EXCEPT !.error_info = "CachedPackageUnavailable"])
    IN  { [st |-> [s1 EXCEPT !.d[n] = id], pkg |-> 0, exc |-> "None"] }

\* Lines 421-424: the first provider name with a cached archive.
RECURSIVE FirstCachedProvider(_, _)
FirstCachedProvider(st, out) ==
    IF out = <<>> THEN {[st |-> st, pkg |-> 0, exc |-> "None"]}
    ELSE UNION { IF r.pkg # 0 \/ r.exc # "None" THEN {r}
                 ELSE FirstCachedProvider(r.st, Tail(out))
                 : r \in get_cached_package(st, Head(out)) }

\* Lines 434-441: pkg is the node whose dependencies are to be walked, 0 if
\* the function returns here.
DetermineAndCheck(st, p) ==
    { [st |-> s2,
       pkg |-> IF s2.h[p].error_info = "None" /\ s2.h[p].repository = REPO_LOCAL
               THEN p ELSE 0,
       exc |-> "None"]
      : s2 \in UNION { determine_package_info(s1, p)
                       : s1 \in determine_repository(st, p) } }

\* Lines 408-432: package-query -Q failed.
NotInstalledName(st, n) ==
    UNION { IF s.w.S[n] # "-"
            THEN OfficialPackage(s, n, s.w.S[n])
            ELSE UNION { UNION { IF r.exc # "None" THEN {r}
                                 ELSE IF r.pkg # 0
                                 THEN DetermineAndCheck(r.st, r.pkg)
                                 ELSE Unavailable(r.st, n)
                                 : r \in FirstCachedProvider(s2, s2.w.A[n]) }
                         : s2 \in AskA(s, n) }
            : s \in AskS(st, n) }

\* Lines 384-406: package-query -Q printed the real name.
InstalledName(st, n, real) ==
    UNION { IF r.exc # "None" THEN {r}
            ELSE IF r.pkg # 0
            THEN DetermineAndCheck([r.st EXCEPT !.d[n] = r.pkg, !.d[real] = r.pkg],
                                   r.pkg)
            ELSE UNION { IF s.w.S[n] # "-"
                         THEN OfficialPackage(s, n, s.w.S[n])
                         ELSE Unavailable(s, n)
                         : s \in AskS(r.st, n) }
            : r \in get_cached_package(st, real) }

\* A map in which no name is ever found.
IsRegisteredNever(st, n) == FALSE

\* Line 373: pkg_name in pkg_dict.
IsRegistered(st, n) == st.d[n] # 0

\* get_package_recursive up to its loop over pkg.dependencies.
get_package_recursive(st, n) ==
    IF IsRegistered(st, n) THEN {[st |-> st, pkg |-> 0, exc |-> "None"]}
    ELSE UNION { IF r.exc # "None" THEN {r}
                 ELSE IF r.pkg # 0
                 THEN DetermineAndCheck([r.st EXCEPT !.d[n] = r.pkg], r.pkg)
                 ELSE UNION { IF s.w.Q[n] # "-"
                              THEN InstalledName(s, n, s.w.Q[n])
                              ELSE NotInstalledName(s, n)
                              : s \in AskQ(r.st, n) }
                 : r \in get_cached_package(st, n) }

----------------------------------------------------------------------------
\* pacman's return code is zero or not.
ReturnCodes == {0, 1}

\* CachedPackage.install (lines 272-292).
CachedPackage_install(node, f, rc) ==
    IF node.installation_status = 0 \/ node.installation_status = 2 \/ f
    THEN IF rc # 0
         THEN [node EXCEPT !.installation_status = -1,
                           !.error_info = "Failed to install package",
                           !.installs = @ + 1]
         ELSE [node EXCEPT !.installation_status =
                               IF node.installation_status = 1 THEN 4 ELSE 3,
                           !.installs = @ + 1]
    ELSE [node EXCEPT !.skipped = @ \/ node.installation_status = 1]

\* OfficialPackage.install (lines 315-334): the pacman -S command always runs.
OfficialPackage_install(node, f, rc) ==
    IF rc # 0
    THEN [node EXCEPT !.installation_status = -1,
                      !.error_info = "Failed to install package",
                      !.installs = @ + 1]
    ELSE [node EXCEPT !.installation_status =
                          IF node.installation_status = 1 THEN 4 ELSE 3,
                      !.installs = @ + 1]

\* An OfficialPackage that is installed whatever the cache-only flag says.
InstallOfficialAnyway(node, cache_only, f, rc) == OfficialPackage_install(node, f, rc)

\* Lines 465-471: what install_package_recursive does to an OfficialPackage.
InstallOfficial(node, cache_only, f, rc) ==
    IF cache_only
    THEN [node EXCEPT !.error_info = "Official package not found in cache"]
    ELSE OfficialPackage_install(node, f, rc)

----------------------------------------------------------------------------
\* format_log (lines 496-505): len(pkg.version) raises TypeError for a node
\* without version.  A line keeps the node, its version and the message.
format_log(pkg, msg) ==
    IF pkg.version = "None" THEN [exc |-> "TypeError", line |-> <<>>]
    ELSE [exc |-> "None",
          line |-> <<[name |-> pkg.name, version |-> pkg.version, msg |-> msg]>>]

\* Lines 583-599: the message of the log line of pkg, given the value of
\* success after the call for its dependencies; "None" if no line is logged.
LogMessage(pkg, success) ==
    IF ~success THEN "Dependency Failed"
    ELSE IF pkg.error_info # "None" THEN "Failed"
    ELSE IF pkg.installation_status = 1 THEN "Skipped"
    ELSE IF pkg.installation_status = 3 THEN "Successfully installed"
    ELSE IF pkg.installation_status = 4 THEN "Successfully reinstalled"
    ELSE "None"

\* print_installation_log_recursive (lines 565-603).  LogLoop is its for
\* loop from position pos on, with the values of success and log so far.
RECURSIVE print_installation_log_recursive(_, _, _, _)
RECURSIVE LogLoop(_, _, _, _, _, _, _)
print_installation_log_recursive(d, h, pkg_names, depth) ==
    IF depth > RecursionLimit
    THEN [exc |-> "RecursionError", success |-> FALSE, log |-> <<>>]
    ELSE LogLoop(d, h, pkg_names, depth, 1, TRUE, <<>>)

LogLoop(d, h, pkg_names, depth, pos, success, log) ==
    IF pos > Len(pkg_names)
    THEN [exc |-> "None", success |-> success, log |-> log]
    ELSE IF d[pkg_names[pos]] = 0
    THEN [exc |-> "KeyError", success |-> FALSE, log |-> <<>>]
    ELSE
      LET pkg == h[d[pkg_names[pos]]]
          sub == IF Len(pkg.dependencies) > 0
                 THEN print_installation_log_recursive(d, h, pkg.dependencies,
                                                       depth + 1)
                 ELSE [exc |-> "None", success |-> success, log |-> <<>>]
          msg == LogMessage(pkg, sub.success)
          fmt == IF msg = "None" THEN [exc |-> "None", line |-> <<>>]
                 ELSE format_log(pkg, msg)
          success2 == sub.success /\ pkg.error_info = "None"
      IN  IF sub.exc # "None" THEN sub
          ELSE IF fmt.exc # "None"
          THEN [exc |-> fmt.exc, success |-> FALSE, log |-> <<>>]
          ELSE LogLoop(d, h, pkg_names, depth, pos + 1, success2,
                       log \o fmt.line \o sub.log)

\* print_installation_log (lines 614-620).
print_installation_log(d, h, pkg_name) ==
    print_installation_log_recursive(d, h, <<pkg_name>>, 1)

----------------------------------------------------------------------------
\* The command lines tell the first requested name from the later ones only
\* by the names they use: the names are called a, b, c in the order in which
\* the command line first uses them.
NameOrder == <<"a", "b", "c">>

RequestLists ==
    { s \in SeqsUpTo(Names, MaxRequested) \ {<<>>} :
        \A i \in 1..Len(s) : \E k \in 1..i : k <= Len(NameOrder) /\ s[i] = NameOrder[k] }

Init ==
    /\ package_names \in RequestLists
    /\ use_cache_only = FALSE
    /\ force = FALSE
    /\ pkg_dict = [n \in Names |-> 0]
    /\ heap = <<>>
    /\ world = [cache |-> [n \in Names |-> <<-1>>],
                installed |-> [n \in Names |-> "?"],
                same_version |-> [n \in Names |-> "?"],
                Q |-> [n \in Names |-> "?"],
                S |-> [n \in Names |-> "?"],
                A |-> [n \in Names |-> <<"?">>],
                available |-> [n \in Names |-> "?"],
                pkginfo |-> [n \in Names |-> <<"?">>]]
    /\ phase = "resolve"
    /\ idx = 1
    /\ stack = <<>>
    /\ returned = {}
    /\ reports = <<>>
    /\ exc = "None"
    /\ exit_status = -1

\* The script has not ended.
Running == exit_status = -1
Done == exit_status # -1

Top == stack[Len(stack)]

\* A loop that is taken to be over before it has begun.
DepsDoneAtOnce(frame) == TRUE

\* The loop over pkg.dependencies of a frame is over.
DepsDone(frame) == frame.i > Len(heap[frame.pkg].dependencies)

\* The running loop has a next name to hand to the recursive function:
\* main's loop over package_names, or the top frame's loop over
\* pkg.dependencies.
HasNext ==
    IF stack = <<>> THEN idx <= Len(package_names)
    ELSE ~Top.wait /\ ~DepsDone(Top)

NextName ==
    IF stack = <<>> THEN package_names[idx]
    ELSE heap[Top.pkg].dependencies[Top.i]

Frame(n, p) == [name |-> n, pkg |-> p, i |-> 1, wait |-> FALSE]

Pop == SubSeq(stack, 1, Len(stack) - 1)

\* An exception leaves every frame and main; lines 688-689 print it and the
\* script ends there, which is exit status 0.
Raise(e) ==
    /\ exc' = e
    /\ stack' = <<>>
    /\ exit_status' = 0
    /\ UNCHANGED phase

\* A call of get_package_recursive (lines 373-441), from main (line 673) or
\* from the loop of lines 442-443.
ResolveCall ==
    /\ phase = "resolve"
    /\ Running
    /\ HasNext
    /\ UNCHANGED <<package_names, use_cache_only, force, returned, reports>>
    /\ IF Len(stack) >= RecursionLimit
       THEN /\ Raise("RecursionError")
            /\ UNCHANGED <<pkg_dict, heap, world, idx>>
       ELSE \E r \in get_package_recursive(St, NextName) :
              LET caller == IF stack = <<>> THEN stack
                            ELSE [stack EXCEPT ![Len(stack)].i = @ + 1]
              IN  /\ pkg_dict' = r.st.d
                  /\ heap' = r.st.h
                  /\ world' = r.st.w
                  /\ IF r.exc # "None"
                     THEN /\ Raise(r.exc)
                          /\ UNCHANGED idx
                     ELSE /\ idx' = IF stack = <<>> THEN idx + 1 ELSE idx
                          /\ stack' = IF r.pkg # 0
                                      THEN Append(caller, Frame(NextName, r.pkg))
                                      ELSE caller
                          /\ UNCHANGED <<phase, exc, exit_status>>

\* The loop of lines 442-443 is over: get_package_recursive returns.
ResolveReturn ==
    /\ phase = "resolve"
    /\ stack # <<>>
    /\ ~HasNext
    /\ stack' = Pop
    /\ UNCHANGED <<package_names, use_cache_only, force, pkg_dict, heap, world,
                   phase, idx, returned, reports, exc, exit_status>>

\* main, lines 675-677: the first loop is over and the second begins; it is
\* the first to read args.use_cache_only and args.force.
ResolveDone ==
    /\ phase = "resolve"
    /\ Running
    /\ stack = <<>>
    /\ ~HasNext
    /\ phase' = "install"
    /\ idx' = 1
    /\ use_cache_only' \in BOOLEAN
    /\ force' \in BOOLEAN
    /\ UNCHANGED <<package_names, pkg_dict, heap, world,
                   stack, returned, reports, exc, exit_status>>

\* A call of install_package_recursive (lines 459-471), from main (line 677)
\* or from the loop of lines 474-476; a node that is neither broken nor an
\* OfficialPackage gets a frame for the loop over its dependencies.
InstallCall ==
    /\ phase = "install"
    /\ Running
    /\ HasNext
    /\ UNCHANGED <<package_names, use_cache_only, force, pkg_dict, world, reports>>
    /\ IF pkg_dict[NextName] = 0
       THEN /\ Raise("KeyError")
            /\ UNCHANGED <<heap, idx, returned>>
       ELSE IF Len(stack) >= RecursionLimit
       THEN /\ Raise("RecursionError")
            /\ UNCHANGED <<heap, idx, returned>>
       ELSE LET p == pkg_dict[NextName]
                caller == IF stack = <<>> THEN stack
                          ELSE [stack EXCEPT ![Len(stack)].wait = TRUE]
            IN  /\ idx' = IF stack = <<>> THEN idx + 1 ELSE idx
                /\ UNCHANGED <<phase, exc, exit_status>>
                /\ IF heap[p].error_info # "None"
                   THEN /\ stack' = caller
                        /\ returned' = returned \cup {NextName}
                        /\ UNCHANGED heap
                   ELSE IF heap[p].cls = "OfficialPackage"
                   THEN /\ stack' = caller
                        /\ returned' = returned \cup {NextName}
                        /\ \E rc \in ReturnCodes :
                             heap' = [heap EXCEPT ![p] =
                                        InstallOfficial(@, use_cache_only, force, rc)]
                   ELSE /\ stack' = Append(caller, Frame(NextName, p))
                        /\ UNCHANGED <<heap, returned>>

\* Lines 477-479: the call for a dependency has returned.
InstallAfterDependency ==
    /\ phase = "install"
    /\ stack # <<>>
    /\ Top.wait
    /\ LET pkg_dependency == pkg_dict[heap[Top.pkg].dependencies[Top.i]]
       IN  IF heap[pkg_dependency].error_info # "None"
           THEN /\ heap' = [heap EXCEPT ![Top.pkg].installation_status = -2]
                /\ stack' = Pop
                /\ returned' = returned \cup {Top.name}
           ELSE /\ stack' = [stack EXCEPT ![Len(stack)].i = @ + 1,
                                          ![Len(stack)].wait = FALSE]
                /\ UNCHANGED <<heap, returned>>
    /\ UNCHANGED <<package_names, use_cache_only, force, pkg_dict, world, phase,
                   idx, reports, exc, exit_status>>

\* Line 481: every dependency is installed, the node's own install follows.
InstallOwn ==
    /\ phase = "install"
    /\ stack # <<>>
    /\ ~Top.wait
    /\ DepsDone(Top)
    /\ \E rc \in ReturnCodes :
         heap' = [heap EXCEPT ![Top.pkg] = CachedPackage_install(@, force, rc)]
    /\ stack' = Pop
    /\ returned' = returned \cup {Top.name}
    /\ UNCHANGED <<package_names, use_cache_only, force, pkg_dict, world, phase,
                   idx, reports, exc, exit_status>>

\* The logs main's third loop (lines 681-682) gets through, from position
\* pos on: the loop ends at the first exception.
RECURSIVE Logs(_, _, _, _)
Logs(d, h, pkg_names, pos) ==
    IF pos > Len(pkg_names) THEN [exc |-> "None", reports |-> <<>>]
    ELSE LET r == print_installation_log(d, h, pkg_names[pos])
             rest == Logs(d, h, pkg_names, pos + 1)
         IN  IF r.exc # "None" THEN [exc |-> r.exc, reports |-> <<>>]
             ELSE [exc |-> rest.exc,
                   reports |-> <<[name |-> pkg_names[pos], success |-> r.success,
                                  log |-> r.log]>> \o rest.reports]

\* The exit status of the script: exit(0) after main (line 687), and the
\* end of the script after the handler of lines 688-689.
ExitStatus(e) == IF e = "None" THEN 0 ELSE 0

\* main, lines 679-682, and the end of the script (lines 685-689): the
\* second loop is over, the installation logs are printed, the process ends.
Report ==
    /\ phase = "install"
    /\ Running
    /\ stack = <<>>
    /\ ~HasNext
    /\ LET r == Logs(pkg_dict, heap, package_names, 1)
       IN  /\ reports' = r.reports
           /\ exc' = r.exc
           /\ exit_status' = ExitStatus(r.exc)
    /\ phase' = "report"
    /\ idx' = 1
    /\ UNCHANGED <<package_names, use_cache_only, force, pkg_dict, heap, world,
                   stack, returned>>

Next ==
    \/ ResolveCall
    \/ ResolveReturn
    \/ ResolveDone
    \/ InstallCall
    \/ InstallAfterDependency
    \/ InstallOwn
    \/ Report

Spec == Init /\ [][Next]_vars

----------------------------------------------------------------------------
\* The keys of pkg_dict and the node of a key.
Keys == {n \in DOMAIN pkg_dict : pkg_dict[n] # 0}
Node(n) == heap[pkg_dict[n]]
Ids == 1..Len(heap)
Range(s) == {s[i] : i \in 1..Len(s)}

\* The installation phase has run to its end.
Installed == Done /\ phase = "report"

\* C1: when the installation phase is over, a node of the map that the
\* phase has visited and that has a dependency with an error has status -2
\* (dependency failed), and its own install command was never run.
C1_DependencyFailed ==
    Installed =>
        \A n \in Keys \cap returned :
            (\E d \in Range(Node(n).dependencies) :
                d \in Keys /\ Node(d).error_info # "None")
            => Node(n).installation_status = -2 /\ Node(n).installs = 0

\* C2: the install command of a node runs at most once in a run.
C2_InstallOnce == \A p \in Ids : heap[p].installs <= 1

\* C3: a step that runs the install command of a node is taken only when
\* install_package_recursive has returned for every name in the node's
\* dependencies.
C3_DependenciesFirst ==
    [][\A p \in Ids :
          (p <= Len(heap') /\ heap'[p].installs > heap[p].installs)
          => Range(heap[p].dependencies) \subseteq returned]_vars

\* C3, reached: a node with a dependency has had its install command run.
C3_Witness ==
    \E p \in Ids : heap[p].dependencies # <<>> /\ heap[p].installs > 0

\* C4: once resolution is over, every requested name is a key of pkg_dict
\* and so is every dependency of every node without error.
C4_MapClosed ==
    phase = "install" =>
        /\ Range(package_names) \subseteq Keys
        /\ \A n \in Keys :
              Node(n).error_info = "None" => Range(Node(n).dependencies) \subseteq Keys

\* C5: a node that install() found installed in the same version, without
\* the force flag, still has status 1 at the end of the run and its install
\* command was never run.
C5_SkippedStays ==
    (Installed /\ ~force) =>
        \A p \in Ids :
            heap[p].skipped => heap[p].installation_status = 1 /\ heap[p].installs = 0

\* C6: two keys of pkg_dict whose nodes carry the same package name map to
\* the same node.
C6_OneNodePerName ==
    \A n, m \in Keys : Node(n).name = Node(m).name => pkg_dict[n] = pkg_dict[m]

\* C7: the installation phase does not recurse without end.
C7_InstallTerminates == ~(phase = "install" /\ exc = "RecursionError")

\* C8: resolution does not recurse without end.
C8_ResolutionTerminates == ~(phase = "resolve" /\ exc = "RecursionError")

\* C9: a is requested, its archive depends on b and b is unavailable: the
\* log of a is rendered, is no success, and has a line "Dependency Failed"
\* for a before a line "Failed" for b.
C9_Scenario ==
    /\ package_names = <<"a">>
    /\ {"a", "b"} \subseteq Keys
    /\ Node("a").cls = "CachedPackage"
    /\ Node("a").dependencies = <<"b">>
    /\ Node("b").error_info = "CachedPackageUnavailable"

C9_FailedDependencyLog ==
    (Done /\ C9_Scenario) =>
        /\ Len(reports) = 1
        /\ ~reports[1].success
        /\ \E i, j \in 1..Len(reports[1].log) :
              /\ i < j
              /\ reports[1].log[i].name = "a"
              /\ reports[1].log[i].msg = "Dependency Failed"
              /\ reports[1].log[j].name = "b"
              /\ reports[1].log[j].msg = "Failed"

\* The subtree of a name holds a failure: a missing key, a node with an
\* error or with status -2, or a dependency whose subtree holds one.
RECURSIVE SubtreeFailed(_, _)
SubtreeFailed(n, seen) ==
    \/ n \notin Keys
    \/ Node(n).error_info # "None"
    \/ Node(n).installation_status = -2
    \/ \E d \in Range(Node(n).dependencies) \ seen : SubtreeFailed(d, seen \cup {d})

----------------------------------------------------------------------------
\* The names below a set of names in map d with objects h: the closure
\* under the dependencies of the nodes of the map.
RECURSIVE Closure(_, _, _)
Closure(d, h, S) ==
    LET T == S \cup UNION { Range(h[d[m]].dependencies)
                            : m \in {k \in S : d[k] # 0} }
    IN  IF T = S THEN S ELSE Closure(d, h, T)

\* The dependency subtree of object p, the object itself left out.
Subtree(d, h, p) == Closure(d, h, Range(h[p].dependencies))

\* A node in the dependency subtree of object p carries an error.
ErrorBelow(d, h, p) ==
    \E k \in Subtree(d, h, p) : d[k] # 0 /\ h[d[k]].error_info # "None"

\* C11: when install_package_recursive returns for a local node while a
\* node anywhere in its dependency subtree carries an error, the node has
\* status -2 (dependency failed) and the returning step did not run the
\* node's own install command.
C11_FailurePropagates ==
    [][\A p \in Ids :
          (/\ phase = "install"
           /\ stack # <<>>
           /\ Top.pkg = p
           /\ exc' = "None"
           /\ Len(stack') < Len(stack)
           /\ ErrorBelow(pkg_dict', heap', p))
          => /\ heap'[p].installation_status = -2
             /\ heap'[p].installs = heap[p].installs]_vars
----------------------------------------------------------------------------
\* Runs in which every name has an archive in the cache directory and none
\* is in the official index, with one name more than Names has.  main has
\* built cached_packages (lines 662-666) before resolution begins, and the
\* archives' depend lists point from a name to later names only.
CachedNames == <<"a", "b", "c", "d">>

CachedDepLists(i) ==
    { s \in SeqsUpTo({CachedNames[j] : j \in (i + 1)..Len(CachedNames)}, MaxDeps) :
        \A j, k \in 1..Len(s) : j # k => s[j] # s[k] }

InitCached ==
    LET N == Range(CachedNames)
        pos == [n \in N |-> CHOOSE i \in 1..Len(CachedNames) : CachedNames[i] = n]
    IN  /\ package_names = <<"a">>
        /\ use_cache_only = FALSE
        /\ force = FALSE
        /\ pkg_dict = [n \in N |-> 0]
        /\ heap = [i \in 1..Len(CachedNames) |->
                       CachedPackage(CachedNames[i], CachedVersion)]
        /\ \E info \in [N -> SeqsUpTo(N, MaxDeps)] :
             /\ \A n \in N : info[n] \in CachedDepLists(pos[n])
             /\ world = [cache |-> [n \in N |-> <<pos[n]>>],
                         installed |-> [n \in N |-> "?"],
                         same_version |-> [n \in N |-> "?"],
                         Q |-> [n \in N |-> "?"],
                         S |-> [n \in N |-> "?"],
                         A |-> [n \in N |-> <<"?">>],
                         available |-> [n \in N |-> "no"],
                         pkginfo |-> info]
        /\ phase = "resolve"
        /\ idx = 1
        /\ stack = <<>>
        /\ returned = {}
        /\ reports = <<>>
        /\ exc = "None"
        /\ exit_status = -1

SpecCached == InitCached /\ [][Next]_vars

\* C12: the success flag the report computes for a requested name is true
\* only if no node in the dependency subtree of that name, the name's own
\* node included, carries an error.
C12_SuccessFlag ==
    \A i \in 1..Len(reports) :
        reports[i].success =>
            \A k \in Closure(pkg_dict, heap, {reports[i].name}) :
                pkg_dict[k] # 0 => heap[pkg_dict[k]].error_info = "None"

\* C13: a call of get_package_recursive for a name that is a key of
\* pkg_dict leaves pkg_dict and every package object as they are, so that
\* the key still leads to the node stored under it, and asks no collaborator
\* anything.
C13_RegisteredNameUntouched ==
    [][(/\ phase = "resolve"
        /\ Running
        /\ HasNext
        /\ Len(stack) < RecursionLimit
        /\ pkg_dict[NextName] # 0)
       => /\ pkg_dict' = pkg_dict
          /\ heap' = heap
          /\ world' = world]_vars

\* C13, reached: the command line names a twice, and the second call of
\* get_package_recursive has found a registered.
C13_Witness ==
    /\ phase = "resolve"
    /\ package_names = <<"a", "a">>
    /\ stack = <<>>
    /\ idx = 3
    /\ pkg_dict["a"] # 0

\* install_package_recursive has returned for a name whose node is object p.
Reached(p) == \E n \in returned : pkg_dict[n] = p

\* C14: with the cache-only flag, no OfficialPackage ever has its pacman -S
\* command run, and every OfficialPackage that the installation phase has
\* reached carries the error "Official package not found in cache"; without
\* the flag, every OfficialPackage that the phase has reached has had its
\* pacman -S command run.
C14_CacheOnly ==
    \A p \in Ids :
        heap[p].cls = "OfficialPackage" =>
            IF use_cache_only
            THEN /\ heap[p].installs = 0
                 /\ Reached(p) =>
                      heap[p].error_info = "Official package not found in cache"
            ELSE Reached(p) => heap[p].installs >= 1

\* C14, reached: the installation phase has come to an OfficialPackage
\* under the cache-only flag.
C14_Witness ==
    /\ use_cache_only
    /\ \E p \in Ids : heap[p].cls = "OfficialPackage" /\ Reached(p)

\* The run of C15, with a for foo and b for bar: a is the one requested
\* name; a has an archive that declares the dependency b and is not in the
\* official index; b has no archive, and pacman and package-query -Q report
\* it installed under the name b; neither flag is set and no pacman
\* command has failed.
C15_Scenario ==
    /\ package_names = <<"a">>
    /\ ~force
    /\ ~use_cache_only
    /\ world.cache["a"] \notin {<<-1>>, <<>>}
    /\ world.available["a"] = "no"
    /\ world.pkginfo["a"] = <<"b">>
    /\ world.cache["b"] = <<>>
    /\ world.Q["b"] = "b"
    /\ world.installed["b"] = "yes"
    /\ \A p \in Ids : heap[p].error_info # "Failed to install package"

\* C15: the run of C15_Scenario ends with no install command run for b,
\* the archive of a installed, and the log of a rendered as a success.
C15_InstalledDependencySkipped ==
    (Done /\ C15_Scenario) =>
        /\ pkg_dict["b"] # 0
        /\ Node("b").installs = 0
        /\ Node("a").installs = 1
        /\ Node("a").installation_status \in {3, 4}
        /\ exc = "None"
        /\ Len(reports) = 1
        /\ reports[1].success

----------------------------------------------------------------------------
\* Runs in which the cache directory holds up to MaxVersions archives of
\* the requested name a, in any order and in different versions, and at
\* most one archive of b.  main has built cached_packages (lines 662-666)
\* before resolution begins.
VersionLists ==
    { s \in SeqsUpTo(Versions, MaxVersions) :
        \A i, j \in 1..Len(s) : i # j => s[i] # s[j] }

InitVersions ==
    /\ package_names = <<"a">>
    /\ use_cache_only = FALSE
    /\ force = FALSE
    /\ pkg_dict = [n \in Names |-> 0]
    /\ \E vs \in VersionLists, others \in {<<>>, <<"b">>} :
         /\ heap = [i \in 1..Len(vs) |-> CachedPackage("a", vs[i])]
                   \o [i \in 1..Len(others) |-> CachedPackage(others[i], CachedVersion)]
         /\ world = [cache |-> [n \in Names |->
                                   IF n = "a" THEN [i \in 1..Len(vs) |-> i]
                                   ELSE IF n = "b" THEN [i \in 1..Len(others) |-> Len(vs) + i]
                                   ELSE <<>>],
                     installed |-> [n \in Names |-> "?"],
                     same_version |-> [n \in Names |-> "?"],
                     Q |-> [n \in Names |-> "?"],
                     S |-> [n \in Names |-> "?"],
                     A |-> [n \in Names |-> <<"?">>],
                     available |-> [n \in Names |-> "?"],
                     pkginfo |-> [n \in Names |-> <<"?">>]]
    /\ phase = "resolve"
    /\ idx = 1
    /\ stack = <<>>
    /\ returned = {}
    /\ reports = <<>>
    /\ exc = "None"
    /\ exit_status = -1

SpecVersions == InitVersions /\ [][Next]_vars

\* The numbers among the components of a version, in their order.
Numbers(v) ==
    LET c == LooseVersion(v)
        F[i \in 0..Len(c)] ==
            IF i = 0 THEN <<>>
            ELSE IF c[i].int THEN Append(F[i - 1], c[i].n) ELSE F[i - 1]
    IN  F[Len(c)]

\* v >= w when the numbers of the two versions are compared one by one.
RECURSIVE NumbersGE(_, _, _)
NumbersGE(x, y, i) ==
    IF i > Len(y) THEN TRUE
    ELSE IF i > Len(x) THEN FALSE
    ELSE IF x[i] # y[i] THEN x[i] > y[i]
    ELSE NumbersGE(x, y, i + 1)

VersionGE(v, w) == NumbersGE(Numbers(v), Numbers(w), 1)

\* The installation status the collaborator's answers give object p.
RefreshedStatus(w, h, p) ==
    IF w.installed[h[p].name] = "no" THEN 0
    ELSE IF w.same_version[h[p].name] = "yes" THEN 1 ELSE 2

\* C16: the lookup of the requested name in the cache, by the first call of
\* get_package_recursive, finds an object exactly if cached_packages holds
\* one of that name; the object found is one of that name whose version is
\* greater than or equal to the version of every other one when their
\* numbers are compared one by one, and it carries the installation status
\* that pacman reports.
C16_BestVersion ==
    [][(/\ phase = "resolve"
        /\ Running
        /\ stack = <<>>
        /\ idx = 1)
       => LET pkg_name == package_names[1]
              ids == world'.cache[pkg_name]
              pkg == pkg_dict'[pkg_name]
          IN  IF ids = <<>>
              THEN pkg = 0 \/ heap'[pkg].name # pkg_name \/ heap'[pkg].cls # "CachedPackage"
              ELSE /\ exc' = "None"
                   /\ pkg \in Range(ids)
                   /\ \A q \in Range(ids) :
                        VersionGE(heap'[pkg].version, heap'[q].version)
                   /\ heap'[pkg].installation_status = RefreshedStatus(world', heap', pkg)]_vars

\* C17: a name gets the node with CachedPackageUnavailable only when the
\* four earlier steps have been tried and have failed: the cache has no
\* archive of the name, none of the name package-query -Q prints for it,
\* package-query -S fails for it, and package-query -A was asked and none
\* of the names it prints has an archive.
C17_UnavailableLast ==
    \A n \in Keys :
        (Node(n).error_info = "CachedPackageUnavailable" /\ Node(n).name = n)
        => /\ world.cache[n] = <<>>
           /\ world.Q[n] = "-" \/ world.cache[world.Q[n]] = <<>>
           /\ world.S[n] = "-"
           /\ world.A[n] # <<"?">>
           /\ \A rpn \in Range(world.A[n]) : world.cache[rpn] = <<>>

\* C18: an object of the cache whose repository resolution has determined
\* has the repository local, its archive's package info has been read, and
\* unless that failed its dependencies are the archive's depend entries;
\* the nodes with the repository official are not objects of the cache.
C18_CachedIsLocal ==
    \A p \in Ids :
        (heap[p].cls = "CachedPackage" /\ heap[p].repository # "None")
        => /\ heap[p].repository = REPO_LOCAL
           /\ world.pkginfo[heap[p].name] # <<"?">>
           /\ heap[p].error_info # "InvalidPacmanPackageError"
                => heap[p].dependencies = world.pkginfo[heap[p].name]

\* C19: when the installation phase is over, install_package_recursive has
\* been called for every requested name and for every dependency of every
\* node it was called for, whatever failed in the run.
C19_SiblingsAttempted ==
    Installed =>
        /\ Range(package_names) \subseteq returned
        /\ \A p \in Ids : Reached(p) => Range(heap[p].dependencies) \subseteq returned

SameVersionBefore(p) ==
    /\ heap[p].version # "None"
    /\ world.installed[heap[p].name] = "yes"
    /\ world.same_version[heap[p].name] = "yes"

\* C21: a step that runs the install command of a node leaves the node
\* with status -1 and an error, or without a new error with status 4
\* (reinstalled) if the node was installed in the same version before the
\* run and with status 3 (installed) if it was not.
C21_InstallOutcome ==
    [][\A p \in Ids :
          (p <= Len(heap') /\ heap'[p].installs > heap[p].installs)
          => \/ /\ heap'[p].installation_status = -1
                /\ heap'[p].error_info # "None"
             \/ /\ heap'[p].error_info = heap[p].error_info
                /\ heap'[p].installation_status =
                       IF SameVersionBefore(p) THEN 4 ELSE 3]_vars

\* C22: an OfficialPackage never has status 1 (installed in the same
\* version); without the cache-only flag, every OfficialPackage that the
\* installation phase has reached has had its pacman -S command run,
\* whatever the force flag and whether or not it was installed; and the
\* message of its log line is never "Skipped".
C22_OfficialNeverSkipped ==
    \A p \in Ids :
        heap[p].cls = "OfficialPackage" =>
            /\ heap[p].installation_status # 1
            /\ (~use_cache_only /\ Reached(p)) => heap[p].installs >= 1
            /\ \A success \in BOOLEAN : LogMessage(heap[p], success) # "Skipped"

\* C22, reached: without the force and cache-only flags, the installation
\* phase has come to an OfficialPackage that pacman reports installed.
C22_Witness ==
    /\ ~use_cache_only
    /\ ~force
    /\ \E p \in Ids :
         /\ heap[p].cls = "OfficialPackage"
         /\ Reached(p)
         /\ world.installed[heap[p].name] = "yes"

====
